---- MODULE Spec2Model ----
(***************************************************************************)
(* Model of calcAttenuation.py: the attenuator calculator for a cryogenic  *)
(* high-frequency line.  The script builds its constraint set from the     *)
(* chain in options['Ts'], runs scipy's SLSQP minimisation once over the   *)
(* continuous gains and once more with the discretisation equalities, and  *)
(* prints a report after each pass.                                        *)
(*                                                                         *)
(* Python floats are modelled as decimal floating-point numbers with a     *)
(* six-digit mantissa, [m |-> mantissa, e |-> exponent] standing for       *)
(* m * 10^e, every operation rounding its result as float arithmetic does. *)
(***************************************************************************)
EXTENDS Integers, Sequences, FiniteSets

\* ------------------------------------------------------------------------
\* Floating-point arithmetic (the operators +, -, *, / of the script)
\* ------------------------------------------------------------------------

\* Largest number of optimisation variables (Stage or Coax positions) of a chain.
MaxPos == 3

Abs(n) == IF n < 0 THEN -n ELSE n

Sgn(n) == IF n < 0 THEN -1 ELSE IF n > 0 THEN 1 ELSE 0

\* Mantissas are kept in MantLo .. MantHi - 1.
MantHi == 1000 * 1000

MantLo == MantHi \div 10

Zero == [m |-> 0, e |-> 0]

RECURSIVE Norm(_, _)
\* The float nearest to m * 10^e.
Norm(m, e) ==
    IF m = 0 THEN Zero
    ELSE IF Abs(m) >= MantHi THEN Norm(Sgn(m) * ((Abs(m) + 5) \div 10), e + 1)
    ELSE IF Abs(m) < MantLo THEN Norm(m * 10, e - 1)
    ELSE [m |-> m, e |-> e]

\* A float literal: F(633, -5) is 6.33e-3.
F(m, e) == Norm(m, e)

RECURSIVE Pow10Int(_)
Pow10Int(k) == IF k <= 0 THEN 1 ELSE 10 * Pow10Int(k - 1)

FNeg(a) == [m |-> -a.m, e |-> a.e]

FAbs(a) == [m |-> Abs(a.m), e |-> a.e]

\* a + b: the operand of smaller exponent is aligned to the larger one, with
\* three guard digits, and the sum is rounded.
FAdd(a, b) ==
    IF a.m = 0 THEN b
    ELSE IF b.m = 0 THEN a
    ELSE LET hi == IF a.e >= b.e THEN a ELSE b
             lo == IF a.e >= b.e THEN b ELSE a
             d  == hi.e - lo.e
             sh == IF d <= 3 THEN lo.m * Pow10Int(3 - d)
                   ELSE IF d <= 9 THEN Sgn(lo.m) * (Abs(lo.m) \div Pow10Int(d - 3))
                   ELSE 0
         IN  Norm(hi.m * 1000 + sh, hi.e - 3)

FSub(a, b) == FAdd(a, FNeg(b))

\* a * b, by halves of the mantissas.
FMul(a, b) ==
    LET ah == Abs(a.m) \div 1000
        al == Abs(a.m) % 1000
        bh == Abs(b.m) \div 1000
        bl == Abs(b.m) % 1000
        q  == ah * bh * 1000 + ah * bl + al * bh + (al * bl) \div 1000
    IN  Norm(Sgn(a.m) * Sgn(b.m) * q, a.e + b.e + 3)

RECURSIVE LongDiv(_, _, _, _)
\* k more quotient digits of r / d appended to q.
LongDiv(r, d, k, q) ==
    IF k = 0 THEN q ELSE LongDiv((r % d) * 10, d, k - 1, q * 10 + (r \div d))

\* a / b for b # 0.
FDiv(a, b) ==
    Norm(Sgn(a.m) * Sgn(b.m) * LongDiv(Abs(a.m), Abs(b.m), 7, 0), a.e - b.e - 6)

FSign(a) == Sgn(a.m)

FGe(a, b) == FSign(FSub(a, b)) >= 0

FLt(a, b) == FSign(FSub(a, b)) < 0

FLe(a, b) == FSign(FSub(a, b)) <= 0

FMin(a, b) == IF FLe(a, b) THEN a ELSE b

\* 10^(k/20) for k = 0..20, scaled by MantLo: the mantissas of the powers of ten.
MantTable ==
    << 100000, 112202, 125893, 141254, 158489, 177828, 199526, 223872, 251189,
       281838, 316228, 354813, 398107, 446684, 501187, 562341, 630957, 707946,
       794328, 891251, 1000000 >>

FloorDiv(a, b) == IF a >= 0 THEN a \div b ELSE -((-a + b - 1) \div b)

\* x in units of 1e-4, truncated.
ToFix4(x) ==
    IF x.e + 4 >= 0 THEN x.m * Pow10Int(x.e + 4)
    ELSE Sgn(x.m) * (Abs(x.m) \div Pow10Int(-(x.e + 4)))

\* 10 ** x: the integer part of x moves the exponent, the fractional part is
\* looked up in MantTable and interpolated between its entries.
Pow10(x) ==
    LET t   == ToFix4(x)
        n   == FloorDiv(t, 10000)
        f   == t - n * 10000
        idx == f \div 500
        r   == f % 500
        lo  == MantTable[idx + 1]
        hi  == MantTable[idx + 2]
    IN  Norm(lo + ((hi - lo) * r) \div 500, n - 5)

\* log10(G) for G > 0: the inverse lookup of Pow10.
Log10(G) ==
    LET idx == CHOOSE k \in 0..19 : MantTable[k + 1] <= G.m /\ G.m < MantTable[k + 2]
        lo  == MantTable[idx + 1]
        hi  == MantTable[idx + 2]
        fr  == idx * 500 + ((G.m - lo) * 500) \div (hi - lo)
    IN  Norm((G.e + 5) * 10000 + fr, -4)

\* ------------------------------------------------------------------------
\* Conversion functions
\* ------------------------------------------------------------------------

Ten == F(10, 0)

\* def dBmtoWatt(dbm): return power(10,dbm/10.)*1e-3
dBmtoWatt(dbm) == FMul(Pow10(FDiv(dbm, Ten)), F(1, -3))

\* def GtodB(G): return log10(G)*10.0
GtodB(G) == FMul(Log10(G), Ten)

\* def dBtoG(dB): return 10.**(dB/10.0)
dBtoG(dB) == Pow10(FDiv(dB, Ten))

\* ------------------------------------------------------------------------
\* Cooling power related functions
\* ------------------------------------------------------------------------

One == F(1, 0)

\* def mip(cp, g): return cp / (1 - g)
mip(cp, g) == FDiv(cp, FSub(One, g))

\* def rmp(cp,g): return mip(cp,g)*g
rmp(cp, g) == FMul(mip(cp, g), g)

\* ------------------------------------------------------------------------
\* Configuration
\* ------------------------------------------------------------------------

\* coaxBeCuAtten = -6.33 / 1000.
coaxBeCuAtten == FDiv(F(-633, -2), F(1000, 0))

\* The chain of options['Ts'], in order from the DUT to room temperature.
ConfiguredTs ==
    << [type |-> "stage", T |-> F(22, -3), CP |-> F(3, -6)],
       [type |-> "stage", T |-> F(9, -2),  CP |-> F(1, -5)],
       [type |-> "stage", T |-> F(8, -1),  CP |-> F(3, -3)],
       [type |-> "coax",  T |-> F(2, 0),   length |-> F(123, 0), atten |-> coaxBeCuAtten],
       [type |-> "stage", T |-> F(32, -1), CP |-> F(1, -1)],
       [type |-> "coax",  T |-> F(246, -1), length |-> F(213, 0), atten |-> coaxBeCuAtten],
       [type |-> "stage", T |-> F(46, 0),  CP |-> F(10, 0)],
       [type |-> "coax",  T |-> F(173, 0), length |-> F(147, 0), atten |-> coaxBeCuAtten],
       [type |-> "RT",    T |-> F(300, 0)] >>

\* The chains the script is run on: every run of up to MaxPos consecutive
\* Stage and Coax positions of the configured line, closed by its RT entry.
Chains ==
    LET last == Len(ConfiguredTs)
    IN  { SubSeq(ConfiguredTs, p[1], p[1] + p[2] - 1) \o << ConfiguredTs[last] >> :
            p \in { q \in (1..(last - 1)) \X (1..MaxPos) : q[1] + q[2] - 1 <= last - 1 } }

\* The list of available attenuators (dB):
\* numpy.append(-numpy.arange(0,10,0.5),[-10.,-11,...,-20.,-25,-30.,-40.])
AvailableGs ==
    [k \in 1..20 |-> F(-5 * (k - 1), -1)]
    \o [k \in 1..11 |-> F(-(9 + k), 0)]
    \o << F(-25, 0), F(-30, 0), F(-40, 0) >>

\* The options dictionary for one chain.
Options(chain) ==
    [ DUT_power_max   |-> F(-37, 0),
      source_power    |-> F(24, 0),
      attenuation_max |-> F(55, 0),
      Ts              |-> chain,
      Gs              |-> AvailableGs ]

\* ------------------------------------------------------------------------
\* State
\* ------------------------------------------------------------------------

VARIABLES
    options,    \* the options dictionary
    pc,         \* the statement of the script that runs next
    CPs,        \* cooling powers, aligned with options['Ts']
    Ts,         \* temperatures of all positions
    const,      \* the constraints of the first pass
    const_ext,  \* the discretisation constraints added in the second pass
    g0,         \* the initial guess
    bnds,       \* the box bounds
    x0,         \* the initial guess handed to the running minimize call
    cons,       \* the constraints handed to the running minimize call
    x,          \* the iterate of the running minimize call
    res,        \* the result of the last minimize call that returned
    Gs,         \* the global Gs: the first pass's result vector
    out         \* what has been printed

vars == << options, pc, CPs, Ts, const, const_ext, g0, bnds, x0, cons, x, res, Gs, out >>

\* Python's g[i]: indices start at 0.
At(g, i) == g[i + 1]

\* ------------------------------------------------------------------------
\* The objective
\* ------------------------------------------------------------------------

RECURSIVE G_t(_, _)
\* The inner loop of electronTemperature at position n:
\*   G_t = Gs[0]; for i in range(1, n): G_t *= Gs[i]
G_t(gs, n) == IF n <= 1 THEN At(gs, 0) ELSE FMul(G_t(gs, n - 1), At(gs, n - 1))

RECURSIVE TeLoop(_, _, _, _)
\* The outer loop of electronTemperature from position n on: Te += T*G_t
TeLoop(ts, gs, n, Te) ==
    IF n >= Len(ts) THEN Te
    ELSE TeLoop(ts, gs, n + 1, FAdd(Te, FMul(At(ts, n), G_t(gs, n))))

\* def electronTemperature(Ts,Gs): Te = Ts[0]; for n, T in enumerate(Ts): ...
electronTemperature(ts, gs) == TeLoop(ts, gs, 0, At(ts, 0))

\* def et(gs): return electronTemperature(Ts,gs)
et(gs) == electronTemperature(Ts, gs)

\* ------------------------------------------------------------------------
\* The constraint functions
\* ------------------------------------------------------------------------

RECURSIVE reduce_mul(_, _)
\* reduce(mul, g) over the first n entries of g.
reduce_mul(g, n) == IF n = 1 THEN g[1] ELSE FMul(reduce_mul(g, n - 1), g[n])

\* 1.a  lambda g: rmp(CPs[0],g[0]) - options['DUT_power_max']
fun_1a(g) == FSub(rmp(At(CPs, 0), At(g, 0)), options.DUT_power_max)

\* 1.b  lambda g: dBmtoWatt(options['source_power'])*reduce(mul,g) - options['DUT_power_max']
fun_1b(g) ==
    FSub(FMul(dBmtoWatt(options.source_power), reduce_mul(g, Len(g))),
         options.DUT_power_max)

\* 2.  lambda g: GtodB(reduce(mul,g)) + options['attenuation_max']
fun_2(g) == FAdd(GtodB(reduce_mul(g, Len(g))), options.attenuation_max)

\* 3.  lambda g,*args: rmp(args[0],g[args[3]]) - mip(args[1],g[args[2]])
fun_3(g, args) ==
    FSub(rmp(args.a0, At(g, args.a3)), mip(args.a1, At(g, args.a2)))

\* fun_coax as it would be had the length been left out of the coax's loss.
fun_coax_per_mm(g, args) == FSub(At(g, args.a2), dBtoG(args.a0))

\* coax: lambda g,*args: g[args[2]] - dBtoG( args[0]*args[1] )
fun_coax(g, args) == FSub(At(g, args.a2), dBtoG(FMul(args.a0, args.a1)))

\* min(abs(dBtoG(catalog) - v)): the least of the distances from v to the
\* gains of the catalog.
MinAbsDiff(catalog, v) ==
    LET D == { FAbs(FSub(dBtoG(catalog[n]), v)) : n \in 1..Len(catalog) }
    IN  CHOOSE d \in D : \A e \in D : FLe(d, e)

\* const_ext: lambda g,*i: min(abs(dBtoG(options['Gs']) - g[i[0]] ))
fun_ext(g, args) == MinAbsDiff(options.Gs, At(g, args.a0))

\* The value of constraint c at g: scipy calls c['fun'](g, *c['args']).
ConstraintValue(c, g) ==
    CASE c.fun = "1a"   -> fun_1a(g)
      [] c.fun = "1b"   -> fun_1b(g)
      [] c.fun = "2"    -> fun_2(g)
      [] c.fun = "3"    -> fun_3(g, c.args)
      [] c.fun = "coax" -> fun_coax(g, c.args)
      [] c.fun = "ext"  -> fun_ext(g, c.args)

\* ------------------------------------------------------------------------
\* Building the chain model and the constraints
\* ------------------------------------------------------------------------

\* CPs = []; for x in options['Ts']: CPs.append(x['CP'] if stage else 1.)
CPsOf(ts) == [n \in 1..Len(ts) |-> IF ts[n].type = "stage" THEN ts[n].CP ELSE One]

\* Ts = [ x['T'] for x in options['Ts'] ]
TsOf(ts) == [n \in 1..Len(ts) |-> ts[n].T]

\* The tuple const is first given: 1.a, 1.b and 2.
ConstHead ==
    << [type |-> "ineq", fun |-> "1a"],
       [type |-> "ineq", fun |-> "1b"],
       [type |-> "ineq", fun |-> "2"] >>

\* The offsets j of enumerate(options['Ts'][i+1:]) at which the inner loop
\* finds a stage and both entries carry a CP.
NextStageOffsets(ts, i) ==
    { j \in 0..(Len(ts) - i - 2) :
        /\ At(ts, i + 1 + j).type = "stage"
        /\ "CP" \in DOMAIN At(ts, i + 1 + j)
        /\ "CP" \in DOMAIN At(ts, i) }

\* Part 3 of the loop body at a stage i: one inequality for the first such
\* offset j (the loop breaks after it), with k = i + j.
InterStageConst(ts, i) ==
    LET J == NextStageOffsets(ts, i)
    IN  IF At(ts, i).type = "stage" /\ J # {}
        THEN LET j == CHOOSE a \in J : \A b \in J : a <= b
                 k == i + j
             IN  << [type |-> "ineq", fun |-> "3",
                     args |-> [a0 |-> At(ts, i + 1 + j).CP, a1 |-> At(ts, i).CP,
                               a2 |-> i, a3 |-> k]] >>
        ELSE << >>

\* The loop body at a coax i: one equality.
CoaxConst(ts, i) ==
    IF At(ts, i).type = "coax"
    THEN << [type |-> "eq", fun |-> "coax",
             args |-> [a0 |-> At(ts, i).atten, a1 |-> At(ts, i).length, a2 |-> i]] >>
    ELSE << >>

RECURSIVE ConstLoop(_, _)
\* for i,x in enumerate(options['Ts']): const += ...   from position i on.
ConstLoop(ts, i) ==
    IF i >= Len(ts) THEN << >>
    ELSE InterStageConst(ts, i) \o CoaxConst(ts, i) \o ConstLoop(ts, i + 1)

RECURSIVE ConstExtLoop_coax(_, _)
\* ConstExtLoop as it would be had it tested for the wrong type of position.
ConstExtLoop_coax(ts, i) ==
    IF i >= Len(ts) THEN << >>
    ELSE (IF At(ts, i).type = "coax"
          THEN << [type |-> "eq", fun |-> "ext", args |-> [a0 |-> i]] >>
          ELSE << >>) \o ConstExtLoop_coax(ts, i + 1)

RECURSIVE ConstExtLoop(_, _)
\* for i,x in enumerate(options['Ts']): if stage: const_ext = const_ext + ...
ConstExtLoop(ts, i) ==
    IF i >= Len(ts) THEN << >>
    ELSE (IF At(ts, i).type = "stage"
          THEN << [type |-> "eq", fun |-> "ext", args |-> [a0 |-> i]] >>
          ELSE << >>) \o ConstExtLoop(ts, i + 1)

RECURSIVE get_g0_from(_, _)
\* def get_g0(): stages start at .5, coaxes at dBtoG(atten*length).
get_g0_from(ts, i) ==
    IF i >= Len(ts) THEN << >>
    ELSE (IF At(ts, i).type = "stage" THEN << F(5, -1) >>
          ELSE IF At(ts, i).type = "coax"
               THEN << dBtoG(FMul(At(ts, i).atten, At(ts, i).length)) >>
               ELSE << >>) \o get_g0_from(ts, i + 1)

get_g0 == get_g0_from(options.Ts, 0)

RECURSIVE BndsLoop_narrow(_, _)
\* BndsLoop as it would be with a lower bound of 1e-3 in place of 1e-6.
BndsLoop_narrow(ts, i) ==
    IF i >= Len(ts) THEN << >>
    ELSE (IF At(ts, i).type = "stage" \/ At(ts, i).type = "coax"
          THEN << << F(1, -3), F(9, -1) >> >>
          ELSE << >>) \o BndsLoop_narrow(ts, i + 1)

RECURSIVE BndsLoop(_, _)
\* for x in options['Ts']: if stage or coax: bnds.append((1e-6, .9))
BndsLoop(ts, i) ==
    IF i >= Len(ts) THEN << >>
    ELSE (IF At(ts, i).type = "stage" \/ At(ts, i).type = "coax"
          THEN << << F(1, -6), F(9, -1) >> >>
          ELSE << >>) \o BndsLoop(ts, i + 1)

\* ------------------------------------------------------------------------
\* The report
\* ------------------------------------------------------------------------

RECURSIVE sum(_, _)
\* sum(atten) over the first n entries: 0 + atten[0] + atten[1] + ...
sum(a, n) == IF n = 0 THEN Zero ELSE FAdd(sum(a, n - 1), a[n])

\* def print_stats(res): the six lines it prints.
print_stats(r) ==
    LET atten == [n \in 1..Len(r.x) |-> GtodB(r.x[n])]
    IN  [ kind          |-> "stats",
          Attenuations  |-> atten,
          Te_mK         |-> FMul(electronTemperature(Ts, r.x), F(1000, 0)),
          TotalAtten    |-> sum(atten, Len(atten)),
          TotalAttenAll |-> sum(atten, Len(atten)),
          DUT_uncooled  |-> FAdd(F(24, 0), sum(atten, Len(atten))),
          DUT_cooled    |-> FMul(Ten, Log10(FDiv(rmp(At(CPs, 0), At(r.x, 0)), F(1, -3)))) ]

\* ------------------------------------------------------------------------
\* scipy.optimize.minimize(method='SLSQP')
\* ------------------------------------------------------------------------

\* The gains an iterate of the optimiser takes at position i: the initial guess,
\* two catalog attenuators (3 dB and 40 dB) at a stage; the physical gain and
\* the value .5 at a coax.
TrialGains(ts, i) ==
    IF At(ts, i).type = "stage"
    THEN { F(5, -1), dBtoG(F(-3, 0)), dBtoG(F(-40, 0)) }
    ELSE { dBtoG(FMul(At(ts, i).atten, At(ts, i).length)), F(5, -1) }

InBounds(v, b) == FGe(v, b[1]) /\ FLe(v, b[2])

\* g satisfies every constraint of cs: 'ineq' means fun >= 0, 'eq' means fun = 0.
Feasible(cs, g) ==
    \A n \in 1..Len(cs) :
        LET v == ConstraintValue(cs[n], g)
        IN  IF cs[n].type = "ineq" THEN FSign(v) >= 0 ELSE FSign(v) = 0

\* ------------------------------------------------------------------------
\* The script, statement by statement
\* ------------------------------------------------------------------------

NoResult == [x |-> << >>, success |-> FALSE]

Init ==
    /\ options \in { Options(c) : c \in Chains }
    /\ pc = "CPs"
    /\ CPs = << >>
    /\ Ts = << >>
    /\ const = << >>
    /\ const_ext = << >>
    /\ g0 = << >>
    /\ bnds = << >>
    /\ x0 = << >>
    /\ cons = << >>
    /\ x = << >>
    /\ res = NoResult
    /\ Gs = << >>
    /\ out = << >>

\* Lines 86-93: CPs and Ts are collected from options['Ts'].
BuildCPs ==
    /\ pc = "CPs"
    /\ CPs' = CPsOf(options.Ts)
    /\ Ts' = TsOf(options.Ts)
    /\ pc' = "const"
    /\ UNCHANGED << options, const, const_ext, g0, bnds, x0, cons, x, res, Gs, out >>

\* Lines 96-134: const is the three fixed inequalities and what the loop adds.
BuildConst ==
    /\ pc = "const"
    /\ const' = ConstHead \o ConstLoop(options.Ts, 0)
    /\ pc' = "const_ext"
    /\ UNCHANGED << options, CPs, Ts, const_ext, g0, bnds, x0, cons, x, res, Gs, out >>

\* Lines 138-145: const_ext.
BuildConstExt ==
    /\ pc = "const_ext"
    /\ const_ext' = ConstExtLoop(options.Ts, 0)
    /\ pc' = "g0"
    /\ UNCHANGED << options, CPs, Ts, const, g0, bnds, x0, cons, x, res, Gs, out >>

\* Line 188: g0=get_g0()
AssignG0 ==
    /\ pc = "g0"
    /\ g0' = get_g0
    /\ pc' = "bnds"
    /\ UNCHANGED << options, CPs, Ts, const, const_ext, bnds, x0, cons, x, res, Gs, out >>

\* Lines 191-194: bnds.
BuildBnds ==
    /\ pc = "bnds"
    /\ bnds' = BndsLoop(options.Ts, 0)
    /\ pc' = "minimize1"
    /\ UNCHANGED << options, CPs, Ts, const, const_ext, g0, x0, cons, x, res, Gs, out >>

\* Line 214: minimize(et, g0, constraints=const, ...) is entered; the optimiser
\* starts at its initial guess.
FirstMinimize ==
    /\ pc = "minimize1"
    /\ x0' = g0
    /\ cons' = const
    /\ x' = g0
    /\ pc' = "slsqp1"
    /\ UNCHANGED << options, CPs, Ts, const, const_ext, g0, bnds, res, Gs, out >>

\* The optimiser moves to another iterate inside the bounds; one step changes
\* one component, and any number of steps may be taken before it returns.
Iterate ==
    /\ pc \in {"slsqp1", "slsqp2"}
    /\ \E i \in 0..(Len(x) - 1) :
        \E g \in TrialGains(options.Ts, i) :
            /\ InBounds(g, At(bnds, i))
            /\ x' = [x EXCEPT ![i + 1] = g]
    /\ UNCHANGED << options, pc, CPs, Ts, const, const_ext, g0, bnds, x0, cons, res, Gs, out >>

\* minimize returns its last iterate.  It reports success only at a point that
\* satisfies the constraints; with 'disp': True it prints its exit message.
MinimizeReturn ==
    /\ pc \in {"slsqp1", "slsqp2"}
    /\ \E ok \in BOOLEAN :
        /\ ok => Feasible(cons, x)
        /\ res' = [x |-> x, success |-> ok]
        /\ out' = Append(out, [kind |-> "disp", success |-> ok])
    /\ pc' = IF pc = "slsqp1" THEN "print_stats1" ELSE "print_stats2"
    /\ UNCHANGED << options, CPs, Ts, const, const_ext, g0, bnds, x0, cons, x, Gs >>

\* Lines 215 and 221: print_stats(res)
PrintStats ==
    /\ pc \in {"print_stats1", "print_stats2"}
    /\ out' = Append(out, print_stats(res))
    /\ pc' = IF pc = "print_stats1" THEN "minimize2" ELSE "done"
    /\ UNCHANGED << options, CPs, Ts, const, const_ext, g0, bnds, x0, cons, x, res, Gs >>

\* SecondMinimize as it would be had the second pass been seeded with g0.
SecondMinimize_from_g0 ==
    /\ pc = "minimize2"
    /\ Gs' = res.x
    /\ x0' = g0
    /\ cons' = const_ext \o const
    /\ x' = g0
    /\ pc' = "slsqp2"
    /\ UNCHANGED << options, CPs, Ts, const, const_ext, g0, bnds, res, out >>

\* Lines 218-219: Gs = res.x; minimize(et, Gs, constraints=const_ext+const, ...)
\* is entered.
SecondMinimize ==
    /\ pc = "minimize2"
    /\ Gs' = res.x
    /\ x0' = res.x
    /\ cons' = const_ext \o const
    /\ x' = res.x
    /\ pc' = "slsqp2"
    /\ UNCHANGED << options, CPs, Ts, const, const_ext, g0, bnds, res, out >>

Next ==
    \/ BuildCPs
    \/ BuildConst
    \/ BuildConstExt
    \/ AssignG0
    \/ BuildBnds
    \/ FirstMinimize
    \/ Iterate
    \/ MinimizeReturn
    \/ PrintStats
    \/ SecondMinimize

Spec == Init /\ [][Next]_vars

\* ------------------------------------------------------------------------
\* Properties
\* ------------------------------------------------------------------------

Positions == 0..(Len(options.Ts) - 1)

IsStage(i) == At(options.Ts, i).type = "stage"

IsCoax(i) == At(options.Ts, i).type = "coax"

LaterStages(i) == { k \in Positions : k > i /\ IsStage(k) }

\* The position of the next Stage after i.
NextStage(i) == CHOOSE k \in LaterStages(i) : \A l \in LaterStages(i) : k <= l

\* A minimize call is running: x is the trial vector of the optimiser.
InOptimiser == pc \in {"slsqp1", "slsqp2"}

\* The desired DUT minimum power in Watt.
DUT_power_max_watts == dBmtoWatt(options.DUT_power_max)

\* The physics-determined gain of the coax at position i.
PinnedGain(i) == dBtoG(FMul(At(options.Ts, i).atten, At(options.Ts, i).length))

InterStageOf(i) == { n \in 1..Len(const) : const[n].fun = "3" /\ const[n].args.a2 = i }

CoaxConstOf(i) == { n \in 1..Len(const) : const[n].fun = "coax" /\ const[n].args.a2 = i }

\* C1: for every Stage position i with a later Stage, exactly one inter-stage
\* inequality is emitted, and its value at the trial vector x is
\* maxOutputPower(CP[k], x[k]) - maxInputPower(CP[i], x[i]) with k the position
\* of the next Stage after i; so it is negative whenever maxInputPower of
\* stage i exceeds maxOutputPower of stage k.
C1_InterStageLinksNextStage ==
    InOptimiser =>
        \A i \in Positions :
            (IsStage(i) /\ LaterStages(i) # {}) =>
                LET k    == NextStage(i)
                    outk == rmp(At(CPs, k), At(x, k))
                    ini  == mip(At(CPs, i), At(x, i))
                IN  /\ Cardinality(InterStageOf(i)) = 1
                    /\ \A n \in InterStageOf(i) :
                        /\ ConstraintValue(const[n], x) = FSub(outk, ini)
                        /\ FLt(outk, ini) => FSign(ConstraintValue(const[n], x)) < 0

\* C2: the DUT-floor inequality (the first constraint) is satisfied at the trial
\* vector x exactly when maxOutputPower(CP[0], x[0]) is at least the desired
\* DUT minimum power in Watt.
C2_DutFloorInWatts ==
    InOptimiser =>
        ((FSign(ConstraintValue(const[1], x)) >= 0)
            <=> FGe(rmp(At(CPs, 0), At(x, 0)), DUT_power_max_watts))

\* C3: the source-attainability inequality (the second constraint) is satisfied
\* at the trial vector x exactly when dBmToWatt(source_power) times the product
\* of all entries of x is at least the desired DUT minimum power in Watt.
C3_SourceAttainableInWatts ==
    InOptimiser =>
        ((FSign(ConstraintValue(const[2], x)) >= 0)
            <=> FGe(FMul(dBmtoWatt(options.source_power), reduce_mul(x, Len(x))),
                    DUT_power_max_watts))

RECURSIVE WeightedSum(_, _, _, _)
\* Te plus the sum over the positions n .. N-1 of ts[n] * product(g[0..n-1]).
WeightedSum(ts, g, n, Te) ==
    IF n >= Len(ts) THEN Te
    ELSE WeightedSum(ts, g, n + 1, FAdd(Te, FMul(At(ts, n), reduce_mul(g, n))))

\* C4: electronTemperature(Ts, x) is Ts[0] plus the sum over the subsequent
\* positions n = 1..N-1 of Ts[n] * product(x[0..n-1]); Ts[0] is counted once.
C4_ElectronTemperature ==
    InOptimiser => et(x) = WeightedSum(Ts, x, 1, At(Ts, 0))

\* C5: every Coax position has exactly one equality constraint, which reads x at
\* the Coax's own index and is zero exactly when x[i] is dbToGain(lossPerMm *
\* lengthMm) of that Coax; so wherever all equality constraints are zero, and in
\* every result the optimiser accepts, each Coax entry is its physical gain.
C5_CoaxPinned ==
    /\ pc \notin {"CPs", "const"} =>
        /\ \A i \in Positions :
            IsCoax(i) =>
                /\ Cardinality(CoaxConstOf(i)) = 1
                /\ \A n \in CoaxConstOf(i) : const[n].type = "eq"
        /\ Cardinality({ n \in 1..Len(const) : const[n].fun = "coax" })
             = Cardinality({ i \in Positions : IsCoax(i) })
    /\ InOptimiser =>
        /\ \A i \in Positions :
            IsCoax(i) =>
                \A n \in CoaxConstOf(i) :
                    (FSign(ConstraintValue(const[n], x)) = 0) <=> (At(x, i) = PinnedGain(i))
        /\ (\A n \in 1..Len(cons) :
                cons[n].type = "eq" => FSign(ConstraintValue(cons[n], x)) = 0)
            => \A i \in Positions : IsCoax(i) => At(x, i) = PinnedGain(i)
    /\ (pc \in {"print_stats1", "print_stats2"} /\ res.success) =>
        \A i \in Positions : IsCoax(i) => At(res.x, i) = PinnedGain(i)

\* The second pass was seeded with a Coax entry off its physical gain and has
\* returned an accepted result.
C5_Witness ==
    /\ pc = "print_stats2"
    /\ res.success
    /\ \E i \in Positions : IsCoax(i) /\ At(x0, i) # PinnedGain(i)

\* The attenuation db is, to tolerance, a value of the catalog.
OnCatalog(db) ==
    \E n \in 1..Len(options.Gs) : FLe(FAbs(FSub(db, options.Gs[n])), F(1, -9))

\* The attenuations of the last report printed.
Reported == out[Len(out)].Attenuations

Malformed(ts) ==
    \/ \A n \in 1..Len(ts) : ts[n].type # "stage"
    \/ Cardinality({ n \in 1..Len(ts) : ts[n].type = "RT" }) # 1
    \/ ts[Len(ts)].type # "RT"
    \/ \E n \in 1..Len(ts) :
        /\ ts[n].type = "coax"
        /\ (FSign(ts[n].length) <= 0 \/ FSign(ts[n].atten) > 0)

\* C7: a malformed chain stops the program before the first optimiser call.
C7_MalformedStopsEarly ==
    Malformed(options.Ts) =>
        pc \in {"CPs", "const", "const_ext", "g0", "bnds", "minimize1"}

\* C8: when one pass ends converged and the other not, on the same vector, the
\* two reports differ, and both passes are reported.
C8_NonConvergenceVisible ==
    pc = "done" =>
        /\ Len(out) = 4
        /\ (out[1].success # out[3].success /\ Gs = res.x) => out[2] # out[4]

\* C9: pass 1 starts from g0 with the constraints 1-5 only; pass 2 starts after
\* pass 1 has returned and been reported, from pass 1's result vector, with
\* every pass-1 constraint and one discretisation equality per Stage position
\* and none for a Coax; one report is printed after each pass.
C9_TwoPassesInOrder ==
    /\ pc = "slsqp1" =>
        /\ x0 = g0
        /\ cons = const
        /\ \A n \in 1..Len(cons) : cons[n].fun \in {"1a", "1b", "2", "3", "coax"}
        /\ res = NoResult
        /\ out = << >>
    /\ pc = "slsqp2" =>
        /\ x0 = res.x
        /\ Gs = res.x
        /\ cons = const_ext \o const
        /\ \A n \in 1..Len(const_ext) :
            const_ext[n].fun = "ext" /\ IsStage(const_ext[n].args.a0)
        /\ \A i \in Positions :
            IsStage(i) =>
                Cardinality({ n \in 1..Len(const_ext) : const_ext[n].args.a0 = i }) = 1
        /\ Len(out) = 2
        /\ out[2] = print_stats(res)
    /\ pc = "minimize2" => [n \in 1..Len(out) |-> out[n].kind] = << "disp", "stats" >>
    /\ pc = "done" =>
        /\ [n \in 1..Len(out) |-> out[n].kind] = << "disp", "stats", "disp", "stats" >>
        /\ out[4] = print_stats(res)

\* Both passes have run on a chain with a Stage and a Coax, the second one
\* seeded with a vector other than g0.
C9_Witness ==
    /\ pc = "done"
    /\ Gs # g0
    /\ \E i \in Positions : IsStage(i)
    /\ \E i \in Positions : IsCoax(i)

\* C10 as stated: the gain of every catalog value lies inside every box bound.
C10_CatalogInBounds ==
    pc \notin {"CPs", "const", "const_ext", "g0", "bnds"} =>
        \A n \in 1..Len(options.Gs) :
            \A i \in 0..(Len(bnds) - 1) : InBounds(dBtoG(options.Gs[n]), At(bnds, i))

\* C10 as amended: every variable is boxed into [1e-6, 0.9]; the gain of every
\* catalog value other than 0 dB lies inside every box bound, and the
\* discretisation equality of each Stage is zero at the in-bounds vector that
\* holds this gain at the Stage.
C10_NonZeroCatalogInBounds ==
    /\ pc \notin {"CPs", "const", "const_ext", "g0", "bnds"} =>
        /\ Len(bnds) = Cardinality({ i \in Positions : IsStage(i) \/ IsCoax(i) })
        /\ \A i \in 0..(Len(bnds) - 1) : At(bnds, i) = << F(1, -6), F(9, -1) >>
    /\ pc = "minimize1" =>
        \A n \in 1..Len(options.Gs) :
            options.Gs[n] # Zero =>
                /\ \A i \in 0..(Len(bnds) - 1) :
                    InBounds(dBtoG(options.Gs[n]), At(bnds, i))
                /\ \A k \in 1..Len(const_ext) :
                    FSign(ConstraintValue(const_ext[k],
                            [g0 EXCEPT ![const_ext[k].args.a0 + 1] = dBtoG(options.Gs[n])])) = 0

\* The second pass has returned an accepted result in which a Stage holds the
\* gain of a catalog attenuator, inside its bounds.
C10_Witness ==
    /\ pc = "print_stats2"
    /\ res.success
    /\ \E i \in Positions :
        /\ IsStage(i)
        /\ \E n \in 1..Len(options.Gs) :
            /\ options.Gs[n] # Zero
            /\ At(res.x, i) = dBtoG(options.Gs[n])
            /\ InBounds(At(res.x, i), At(bnds, i))

====
